---- MODULE Spec2Model ----
(***************************************************************************)
(* The resilience layer of ai-debate-club: withRetry and CircuitBreaker    *)
(* (src/src/lib/api/retry.ts) and their composition in GroqClient          *)
(* (src/src/lib/api/groq-enhanced.ts).                                     *)
(*                                                                         *)
(* Time is the value of Date.now(), in abstract milliseconds.  execute is  *)
(* an async function: its body up to the first await runs in one step, and *)
(* the continuation after the awaited operation settles runs in another,   *)
(* so calls of several callers interleave at the awaits only.              *)
(***************************************************************************)
EXTENDS Integers, Sequences, FiniteSets, TLC

\* ------------------------------------------------------------------ bounds
NumCallers == 2
MaxTime == 4
MaxThreshold == 3
RecoveryTimeout == 2
MaxHist == 5
MaxRetries == 2
MaxGroqCalls == 2
FailUntil == 1
MaxRequests == 2

Callers == 1..NumCallers

\* ------------------------------------------------------- values and errors
CLOSED == "closed"
OPEN == "open"
HALF_OPEN == "half-open"
CircuitState == {CLOSED, OPEN, HALF_OPEN}

\* The status of a failure value that has no status property.
NoStatus == -1

\* A thrown value: what it is (an Error instance, a GroqAPIError instance, a
\* plain object, a string, null, undefined), its message, its status
\* property and its retryable property.
Thrown(k, m, s, r) == [kind |-> k, message |-> m, status |-> s, retryable |-> r]
ErrorOf(m) == Thrown("Error", m, NoStatus, FALSE)

\* new Error('Circuit breaker is open')
CircuitOpenError == ErrorOf("Circuit breaker is open")

\* Failures of the operations the breaker guards in Spec.
ServiceDown == ErrorOf("Service down")
BreakerOpErrors == {ServiceDown, ErrorOf("Validation error")}
Values == {"success", "other"}

\* The settled result of an execute call (or none yet).
NoVal == "-"
NoErr == Thrown("undefined", "", NoStatus, FALSE)
NoResult == [tag |-> "none", val |-> NoVal, err |-> NoErr]
Resolved(v) == [tag |-> "value", val |-> v, err |-> NoErr]
Rejected(e) == [tag |-> "error", val |-> NoVal, err |-> e]

\* ------------------------------------------------------------ string tests
\* The characters of the strings the model uses.
Chars(s) ==
    CASE s = "" -> <<>>
      [] s = "Circuit breaker is open" -> <<"C", "i", "r", "c", "u", "i", "t", " ", "b", "r", "e", "a", "k", "e", "r", " ", "i", "s", " ", "o", "p", "e", "n">>
      [] s = "Service down" -> <<"S", "e", "r", "v", "i", "c", "e", " ", "d", "o", "w", "n">>
      [] s = "Validation error" -> <<"V", "a", "l", "i", "d", "a", "t", "i", "o", "n", " ", "e", "r", "r", "o", "r">>
      [] s = "fetch failed" -> <<"f", "e", "t", "c", "h", " ", "f", "a", "i", "l", "e", "d">>
      [] s = "network timeout" -> <<"n", "e", "t", "w", "o", "r", "k", " ", "t", "i", "m", "e", "o", "u", "t">>
      [] s = "Network error" -> <<"N", "e", "t", "w", "o", "r", "k", " ", "e", "r", "r", "o", "r">>
      [] s = "network down" -> <<"n", "e", "t", "w", "o", "r", "k", " ", "d", "o", "w", "n">>
      [] s = "string error" -> <<"s", "t", "r", "i", "n", "g", " ", "e", "r", "r", "o", "r">>
      [] s = "onRetry failed" -> <<"o", "n", "R", "e", "t", "r", "y", " ", "f", "a", "i", "l", "e", "d">>
      [] s = "AI service is temporarily unavailable" -> <<"A", "I", " ", "s", "e", "r", "v", "i", "c", "e", " ", "i", "s", " ", "t", "e", "m", "p", "o", "r", "a", "r", "i", "l", "y", " ", "u", "n", "a", "v", "a", "i", "l", "a", "b", "l", "e">>
      [] s = "fetch" -> <<"f", "e", "t", "c", "h">>
      [] s = "network" -> <<"n", "e", "t", "w", "o", "r", "k">>
      [] s = "timeout" -> <<"t", "i", "m", "e", "o", "u", "t">>
      [] s = "Network" -> <<"N", "e", "t", "w", "o", "r", "k">>
      [] s = "HTTP " -> <<"H", "T", "T", "P", " ">>
      [] s = "HTTP 400: " -> <<"H", "T", "T", "P", " ", "4", "0", "0", ":", " ">>
      [] s = "HTTP 429: " -> <<"H", "T", "T", "P", " ", "4", "2", "9", ":", " ">>
      [] s = "HTTP 503: " -> <<"H", "T", "T", "P", " ", "5", "0", "3", ":", " ">>
      [] s = "HTTP 429" -> <<"H", "T", "T", "P", " ", "4", "2", "9">>
      [] s = "HTTP 500" -> <<"H", "T", "T", "P", " ", "5", "0", "0">>
      [] s = "HTTP 502" -> <<"H", "T", "T", "P", " ", "5", "0", "2">>
      [] s = "HTTP 503" -> <<"H", "T", "T", "P", " ", "5", "0", "3">>
      [] s = "Request timeout after 30000ms" -> <<"R", "e", "q", "u", "e", "s", "t", " ", "t", "i", "m", "e", "o", "u", "t", " ", "a", "f", "t", "e", "r", " ", "3", "0", "0", "0", "0", "m", "s">>
      [] s = "Unexpected token" -> <<"U", "n", "e", "x", "p", "e", "c", "t", "e", "d", " ", "t", "o", "k", "e", "n">>
      [] s = "No response from Groq API" -> <<"N", "o", " ", "r", "e", "s", "p", "o", "n", "s", "e", " ", "f", "r", "o", "m", " ", "G", "r", "o", "q", " ", "A", "P", "I">>
      [] s = "HTTP 408: " -> <<"H", "T", "T", "P", " ", "4", "0", "8", ":", " ">>
      [] s = "HTTP 500: " -> <<"H", "T", "T", "P", " ", "5", "0", "0", ":", " ">>
      [] s = "Request timeout after 10000ms" -> <<"R", "e", "q", "u", "e", "s", "t", " ", "t", "i", "m", "e", "o", "u", "t", " ", "a", "f", "t", "e", "r", " ", "1", "0", "0", "0", "0", "m", "s">>
      [] s = "This operation was aborted" -> <<"T", "h", "i", "s", " ", "o", "p", "e", "r", "a", "t", "i", "o", "n", " ", "w", "a", "s", " ", "a", "b", "o", "r", "t", "e", "d">>

\* String.prototype.includes on character sequences.
SeqIncludes(s, p) ==
    \E i \in 1..(Len(s) - Len(p) + 1) : SubSeq(s, i, i + Len(p) - 1) = p

\* message.includes(pattern)
Includes(message, pattern) == SeqIncludes(Chars(message), Chars(pattern))

\* error instanceof Error
InstanceOfError(e) == e.kind \in {"Error", "GroqAPIError"}

\* --------------------------------------------------------------- withRetry
\* DEFAULT_RETRY_OPTIONS.retryCondition
DefaultRetryCondition(error) ==
    IF InstanceOfError(error)
    THEN \/ Includes(error.message, "fetch")
         \/ Includes(error.message, "network")
         \/ Includes(error.message, "timeout")
    ELSE IF error.kind = "object" /\ error.status # NoStatus
    THEN error.status >= 500 \/ error.status = 408 \/ error.status = 429
    ELSE FALSE

\* The retry conditions a policy may carry: the default one, () => true,
\* and the one that matches 'Network' in an Error's message; "groq" is the
\* one of GroqClient's DEFAULT_CONFIG.
RetryConditions == {"default", "always", "Network"}

\* config.retryCondition(error)
RetryCondition(cond, error) ==
    CASE cond = "default" -> DefaultRetryCondition(error)
      [] cond = "always" -> TRUE
      [] cond = "Network" -> InstanceOfError(error) /\ Includes(error.message, "Network")
      [] cond = "groq" -> IF error.kind = "GroqAPIError" THEN error.retryable ELSE TRUE

\* The onRetry of a policy: none given, one that returns, one that throws.
OnRetryKinds == {"none", "observer", "throws"}
ObserverError == ErrorOf("onRetry failed")

\* Math.random(), in thousandths.
Randoms == {0, 500, 999}

\* Math.pow(b, n) for a natural n.
RECURSIVE Pow(_, _)
Pow(b, n) == IF n = 0 THEN 1 ELSE b * Pow(b, n - 1)

Min(a, b) == IF a <= b THEN a ELSE b

\* cappedDelay without the cap: exponentialDelay.
CappedDelay_Uncapped(attemptNumber, options) ==
    options.initialDelay * Pow(options.backoffFactor, attemptNumber - 1)

\* calculateDelay, without the jitter: cappedDelay.
CappedDelay(attemptNumber, options) ==
    Min(options.initialDelay * Pow(options.backoffFactor, attemptNumber - 1),
        options.maxDelay)

\* calculateDelay with a jitter of up to a fifth of cappedDelay.
calculateDelay_DoubleJitter(attemptNumber, options, random) ==
    CappedDelay(attemptNumber, options) * 10000
        + CappedDelay(attemptNumber, options) * random * 2

\* calculateDelay with a jitter centred on cappedDelay: up to a twentieth of
\* it either way.
calculateDelay_CentredJitter(attemptNumber, options, random) ==
    CappedDelay(attemptNumber, options) * 10000
        + CappedDelay(attemptNumber, options) * (random - 500)

\* calculateDelay(attemptNumber, options) when Math.random() returns
\* random/1000; the result is in units of 1/10000 ms, which makes
\* cappedDelay * 0.1 * Math.random() exact.
calculateDelay(attemptNumber, options, random) ==
    CappedDelay(attemptNumber, options) * 10000
        + CappedDelay(attemptNumber, options) * random

\* sleep(ms): the timer fires ms milliseconds from now, the fraction dropped.
SleepUntil(t, delay) == t + (delay \div 10000)

\* The failures the operation given to withRetry may reject with.
RetryFailures ==
    { ErrorOf("fetch failed"), ErrorOf("network timeout"), ErrorOf("Network error"),
      ErrorOf("Validation error"),
      Thrown("Error", "Service down", 503, FALSE),
      Thrown("object", "", 500, FALSE), Thrown("object", "", 502, FALSE),
      Thrown("object", "", 408, FALSE), Thrown("object", "", 429, FALSE),
      Thrown("object", "", 400, FALSE), Thrown("object", "", 404, FALSE),
      Thrown("object", "", 600, FALSE), Thrown("object", "network down", NoStatus, FALSE),
      Thrown("string", "string error", NoStatus, FALSE),
      Thrown("null", "", NoStatus, FALSE), Thrown("undefined", "", NoStatus, FALSE) }

\* The delay settings of a policy: those of the tests, DEFAULT_RETRY_OPTIONS,
\* one whose cap is reached at the third attempt, one that does not grow,
\* one that triples, one that retries at once, and one that starts at its
\* cap.
DelayOptions ==
    { [initialDelay |-> 1, maxDelay |-> 1, backoffFactor |-> 2],
      [initialDelay |-> 1000, maxDelay |-> 10000, backoffFactor |-> 2],
      [initialDelay |-> 1000, maxDelay |-> 3000, backoffFactor |-> 2],
      [initialDelay |-> 1000, maxDelay |-> 10000, backoffFactor |-> 1],
      [initialDelay |-> 100, maxDelay |-> 1000, backoffFactor |-> 3],
      [initialDelay |-> 0, maxDelay |-> 1000, backoffFactor |-> 2],
      [initialDelay |-> 1000, maxDelay |-> 1000, backoffFactor |-> 2] }

\* config = { ...DEFAULT_RETRY_OPTIONS, ...options }
Policies ==
    { [maxRetries |-> n, initialDelay |-> d.initialDelay, maxDelay |-> d.maxDelay,
       backoffFactor |-> d.backoffFactor, retryCondition |-> rc, onRetry |-> o] :
          n \in 0..MaxRetries, d \in DelayOptions, rc \in RetryConditions,
          o \in OnRetryKinds }

\* A withRetry call in progress: pc is "idle", "awaitOp" (at `await
\* operation()`) or "sleep" (at `await sleep(delay)`); attempt and lastError
\* are the function's variables; delay is the delay computed for the sleep
\* in progress and wakeAt the time its timer fires; opCalls, condCalls, sleeps count the operation's
\* invocations, the evaluations of retryCondition and the sleeps; retryLog
\* lists the attempt numbers onRetry was called with; allRetryable tells
\* whether retryCondition holds of every failure of the operation so far.
IdleFrame ==
    [pc |-> "idle", attempt |-> 0, lastError |-> NoErr, delay |-> 0, wakeAt |-> 0,
     opCalls |-> 0, condCalls |-> 0, sleeps |-> 0, retryLog |-> <<>>,
     allRetryable |-> TRUE]

\* withRetry, up to the first await: attempt = 1, operation() invoked.
withRetryEnter == [IdleFrame EXCEPT !.pc = "awaitOp", !.attempt = 1, !.opCalls = 1]

\* A settled withRetry call: the frame it ended with, its result, and what
\* its operation settled with last.
RetrySettled(f, res, opRes) ==
    [settled |-> TRUE, frame |-> [f EXCEPT !.pc = "idle"], result |-> res, opResult |-> opRes]
RetryPending(f) ==
    [settled |-> FALSE, frame |-> f, result |-> NoResult, opResult |-> NoResult]
NoRetryCall == RetryPending(IdleFrame)

\* withRetry that awaits the operation and returns nothing.
withRetryResolve_DropsValue(f, v) == RetrySettled(f, Resolved(NoVal), Resolved(v))

\* withRetry, the operation having resolved with v: return it.
withRetryResolve(f, v) == RetrySettled(f, Resolved(v), Resolved(v))

\* The last-attempt test with >= for >.
LastAttempt_StopsEarly(f, cfg) == f.attempt >= cfg.maxRetries

\* The last-attempt test that lets the last attempt be retried.
LastAttempt_OneMore(f, cfg) == f.attempt > cfg.maxRetries + 1

\* attempt > config.maxRetries
LastAttempt(f, cfg) == f.attempt > cfg.maxRetries

\* The retry test that retries every failure.
ShouldRetry_Always(cfg, error) == TRUE

\* config.retryCondition!(error)
ShouldRetry(cfg, error) == RetryCondition(cfg.retryCondition, error)

\* withRetry whose catch block goes straight to the next attempt: no onRetry,
\* no sleep.
withRetryCatch_NoSleep(f, cfg, error, random, t) ==
    LET g == [f EXCEPT !.lastError = error,
                       !.allRetryable = f.allRetryable /\ RetryCondition(cfg.retryCondition, error)]
    IN  IF LastAttempt(f, cfg)
        THEN RetrySettled(g, Rejected(error), Rejected(error))
        ELSE IF ~ShouldRetry(cfg, error)
        THEN RetrySettled([g EXCEPT !.condCalls = f.condCalls + 1],
                          Rejected(error), Rejected(error))
        ELSE RetryPending([g EXCEPT !.condCalls = f.condCalls + 1,
                                    !.attempt = f.attempt + 1,
                                    !.opCalls = f.opCalls + 1])

\* withRetry, the catch block, the operation having rejected with error at
\* time t, Math.random() returning random.
withRetryCatch(f, cfg, error, random, t) ==
    LET g == [f EXCEPT !.lastError = error,
                       !.allRetryable = f.allRetryable /\ RetryCondition(cfg.retryCondition, error)]
    IN  IF LastAttempt(f, cfg)
        THEN RetrySettled(g, Rejected(error), Rejected(error))
        ELSE IF ~ShouldRetry(cfg, error)
        THEN RetrySettled([g EXCEPT !.condCalls = f.condCalls + 1],
                          Rejected(error), Rejected(error))
        ELSE LET delay == calculateDelay(f.attempt, cfg, random)
                 h == [g EXCEPT !.condCalls = f.condCalls + 1,
                                !.delay = delay,
                                !.retryLog = IF cfg.onRetry = "none" THEN f.retryLog
                                             ELSE Append(f.retryLog, f.attempt)]
             IN  IF cfg.onRetry = "throws"
                 THEN RetrySettled(h, Rejected(ObserverError), Rejected(error))
                 ELSE RetryPending([h EXCEPT !.pc = "sleep",
                                             !.sleeps = f.sleeps + 1,
                                             !.wakeAt = SleepUntil(t, delay)])

\* withRetry whose loop does not count its attempts: after the sleep the
\* operation is invoked again under the same attempt number.
withRetryWake_NoCount(f, cfg) ==
    RetryPending([f EXCEPT !.pc = "awaitOp", !.opCalls = f.opCalls + 1,
                           !.delay = 0, !.wakeAt = 0])

\* withRetry, after the sleep: attempt++, the loop test, operation() invoked.
withRetryWake(f, cfg) ==
    IF f.attempt + 1 <= cfg.maxRetries + 1
    THEN RetryPending([f EXCEPT !.pc = "awaitOp", !.attempt = f.attempt + 1,
                                !.opCalls = f.opCalls + 1,
                                !.delay = 0, !.wakeAt = 0])
    ELSE RetrySettled([f EXCEPT !.attempt = f.attempt + 1],
                      Rejected(f.lastError), NoResult)

\* -------------------------------------------------------------- GroqClient
\* new GroqAPIError(message, status, retryable)
GroqAPIError(m, s, r) == Thrown("GroqAPIError", m, s, r)

\* DEFAULT_CONFIG.timeout
GroqTimeout == 30000

\* DEFAULT_CONFIG.retryOptions merged over DEFAULT_RETRY_OPTIONS by withRetry,
\* with the onRetry that fetchWithRetry always supplies.
GroqRetryOptions ==
    [maxRetries |-> 2, initialDelay |-> 2000, maxDelay |-> 8000, backoffFactor |-> 2,
     retryCondition |-> "groq", onRetry |-> "observer"]

\* new CircuitBreaker(): the default configuration.
DefaultBreakerConfig == [failureThreshold |-> 5, recoveryTimeout |-> 60000]

\* What Math.random() returns in the calls of the client, in thousandths:
\* the delays of its retries without jitter.
GroqRandoms == {0}

\* The statuses the completion endpoint answers with.
FetchStatuses == {200, 400, 429, 503}

\* response.ok
ResponseOk(status) == status \in 200..299

\* `HTTP ${response.status}: ${response.statusText}`, the status text empty.
HttpMessage(status) ==
    CASE status = 400 -> "HTTP 400: "
      [] status = 408 -> "HTTP 408: "
      [] status = 500 -> "HTTP 500: "
      [] status = 429 -> "HTTP 429: "
      [] status = 503 -> "HTTP 503: "

\* What one attempt of fetchWithRetry's operation throws.
HttpError(status) == ErrorOf(HttpMessage(status))
NetworkError == ErrorOf("fetch failed")
TimeoutError == ErrorOf("Request timeout after 30000ms")

\* fetchWithRetry called without a timeout option: timeout = 10000, and the
\* Error an aborted attempt throws.
DefaultTimeout == 10000

\* The AbortError of the aborted fetch, rethrown as it is.
DefaultTimeoutError_Abort == ErrorOf("This operation was aborted")

DefaultTimeoutError == ErrorOf("Request timeout after 10000ms")

\* The statuses an upstream answers fetchWithRetry with.
UpstreamStatuses == FetchStatuses \cup {408, 500}

\* The options withRetry gets from fetchWithRetry: the retryOptions with an
\* onRetry that logs and then calls retryOptions.onRetry, if there is one.
FetchRetryOptions(retryOptions) ==
    [retryOptions EXCEPT !.onRetry = IF @ = "throws" THEN "throws" ELSE "observer"]

\* What the rest of the guarded operation throws after a response arrived.
JsonError == ErrorOf("Unexpected token")
NoResponseError == GroqAPIError("No response from Groq API", NoStatus, TRUE)

\* parseInt of a run of digits of s starting at i.
IsDigit(ch) == ch \in {"0", "1", "2", "3", "4", "5", "6", "7", "8", "9"}
DigitVal(ch) ==
    CASE ch = "0" -> 0 [] ch = "1" -> 1 [] ch = "2" -> 2 [] ch = "3" -> 3 [] ch = "4" -> 4
      [] ch = "5" -> 5 [] ch = "6" -> 6 [] ch = "7" -> 7 [] ch = "8" -> 8 [] ch = "9" -> 9
RECURSIVE ParseDigits(_, _, _)
ParseDigits(s, i, acc) ==
    IF i <= Len(s) /\ IsDigit(s[i]) THEN ParseDigits(s, i + 1, acc * 10 + DigitVal(s[i]))
    ELSE acc

\* parseInt(error.message.match(/HTTP (\d+)/)?.[1] || '500')
ParseHttpStatus(message) ==
    LET s == Chars(message)
        at == {i \in 1..Len(s) : /\ i + 5 <= Len(s)
                                 /\ SubSeq(s, i, i + 4) = Chars("HTTP ")
                                 /\ IsDigit(s[i + 5])}
    IN  IF at = {} THEN 500
        ELSE ParseDigits(s, (CHOOSE i \in at : \A j \in at : i <= j) + 5, 0)

\* The catch block reporting the open circuit as retryable, as it reports
\* the upstream's 503.
GroqErrorOf_CircuitRetryable(error) ==
    IF error.kind = "GroqAPIError" THEN error
    ELSE IF InstanceOfError(error) /\ Includes(error.message, "timeout")
    THEN GroqAPIError("Request timed out - AI response took too long", 408, TRUE)
    ELSE IF InstanceOfError(error) /\ Includes(error.message, "HTTP 429")
    THEN GroqAPIError("API rate limit exceeded - please try again in a moment", 429, TRUE)
    ELSE IF InstanceOfError(error) /\ (\/ Includes(error.message, "HTTP 500")
                                       \/ Includes(error.message, "HTTP 502")
                                       \/ Includes(error.message, "HTTP 503"))
    THEN GroqAPIError("AI service is temporarily unavailable",
                      ParseHttpStatus(error.message), TRUE)
    ELSE IF InstanceOfError(error) /\ Includes(error.message, "Circuit breaker is open")
    THEN GroqAPIError("AI service is currently unavailable due to repeated failures",
                      503, TRUE)
    ELSE GroqAPIError("Failed to generate AI response", NoStatus, FALSE)

\* generateResponse's catch block: the error it throws for a caught one.
GroqErrorOf(error) ==
    IF error.kind = "GroqAPIError" THEN error
    ELSE IF InstanceOfError(error) /\ Includes(error.message, "timeout")
    THEN GroqAPIError("Request timed out - AI response took too long", 408, TRUE)
    ELSE IF InstanceOfError(error) /\ Includes(error.message, "HTTP 429")
    THEN GroqAPIError("API rate limit exceeded - please try again in a moment", 429, TRUE)
    ELSE IF InstanceOfError(error) /\ (\/ Includes(error.message, "HTTP 500")
                                       \/ Includes(error.message, "HTTP 502")
                                       \/ Includes(error.message, "HTTP 503"))
    THEN GroqAPIError("AI service is temporarily unavailable",
                      ParseHttpStatus(error.message), TRUE)
    ELSE IF InstanceOfError(error) /\ Includes(error.message, "Circuit breaker is open")
    THEN GroqAPIError("AI service is currently unavailable due to repeated failures",
                      503, FALSE)
    ELSE GroqAPIError("Failed to generate AI response", NoStatus, FALSE)

\* A generateResponse call in progress: pc is "idle", "fetch" (inside
\* fetchWithRetry) or "json" (at `await response.json()`); deadline is when
\* the abort timer of the fetch in flight fires; fetches counts the network
\* calls of the call once fetchWithRetry has returned.
IdleGroq == [pc |-> "idle", deadline |-> 0, fetches |-> 0]

\* A settled generateResponse call: its result, whether the breaker invoked
\* the operation, the network calls it made, whether one of them was
\* answered with an ok response.
GroqSettled(res, inv, n, ok) ==
    [result |-> res, invoked |-> inv, fetches |-> n, fetchOk |-> ok]
NoGroqCall == GroqSettled(NoResult, FALSE, 0, FALSE)

\* ------------------------------------------------------- health accessors
\* null
Null == -1

\* What an accessor returned: getState the state alone, getHealth the
\* CircuitBreakerHealth, its Dates as their milliseconds.
Read(op, st, fc, lft, nat) ==
    [op |-> op, state |-> st, failureCount |-> fc, lastFailureTime |-> lft,
     nextAttemptTime |-> nat]
NoRead == Read("none", "", Null, Null, Null)

\* --------------------------------------------------------------- the debate
\* The request slots: at most MaxRequests POST /api/debate/message requests
\* are in progress at a time.
Requests == 1..MaxRequests

\* body.curveball: absent, the empty string, or a text.
Absent == "undefined"
Curveballs == {Absent, "", "twist"}

\* JavaScript truthiness of an optional string.
Truthy(s) == s \notin {Absent, ""}

\* body.debateId: the debate in storage, or an id storage does not hold.
DebateIds == {"debate", "unknown"}

\* getDebatePhase(turn)
getDebatePhase(turn) ==
    IF turn <= 2 THEN "opening"
    ELSE IF turn <= 6 THEN "rebuttal"
    ELSE IF turn <= 8 THEN "closing"
    ELSE "complete"

\* getNextParticipant(currentTurn)
getNextParticipant(currentTurn) ==
    IF currentTurn % 2 = 1 THEN "persona1" ELSE "persona2"

\* isDebateComplete(turn)
isDebateComplete(turn) == turn > 8

\* canAddCurveball(turn)
canAddCurveball(turn) == turn >= 3 /\ turn <= 6

\* createDebate(topic, persona1Type, persona2Type), as the start route
\* stores it.
createDebate ==
    [messages |-> <<>>, currentTurn |-> 1, phase |-> "opening", curveball |-> Absent]

\* The turn of the last message of the participant's opponent (0: none),
\* standing for its content.
LastOpponentMessage(messages, participantId) ==
    LET opponentMessages == SelectSeq(messages, LAMBDA m : m.participantId # participantId)
    IN  IF opponentMessages = <<>> THEN 0
        ELSE opponentMessages[Len(opponentMessages)].turn

\* buildPrompt(systemPrompt, topic, turn, phase, opponentMessage, curveball):
\* the parts of the context frame that vary.
buildPrompt(turn, phase, opponentMessage, curveball) ==
    [turn |-> turn, phase |-> phase, opponentMessage |-> opponentMessage,
     instruction |-> IF Truthy(curveball) THEN curveball ELSE Absent]
NoPrompt == buildPrompt(0, "", 0, Absent)

\* A request slot: pc is "idle" or "callGroq" (at `await callGroq(messages)`);
\* the participant determined and the prompt built before the await, the
\* curveball of the body, and the status of the response sent last.
Request(p, participantId, curveball, prompt, status) ==
    [pc |-> p, participantId |-> participantId, curveball |-> curveball,
     prompt |-> prompt, status |-> status]
IdleRequest == Request("idle", "", Absent, NoPrompt, 0)
Responded(status) == Request("idle", "", Absent, NoPrompt, status)

\* ------------------------------------------------------------------- state
VARIABLES
    state,            \* CircuitBreaker.state
    failures,         \* CircuitBreaker.failures
    lastFailureTime,  \* CircuitBreaker.lastFailureTime (0: none)
    config,           \* CircuitBreaker.config
    now,              \* Date.now()
    pc,               \* per caller: "idle", or "awaitOp" inside execute at `await operation()`
    probe,            \* the callers whose call in flight found the breaker open and was let through
    last,             \* the execute call that settled last
    hist,             \* the operations that settled and the resets, oldest first
    policy,           \* withRetry: config, the options merged over DEFAULT_RETRY_OPTIONS
    rcall,            \* per caller: the withRetry call in progress
    rlast,            \* the withRetry call that settled last
    gcall,            \* per caller: the GroqClient.generateResponse call in progress
    glast,            \* the generateResponse call that settled last
    gcount,           \* the generateResponse calls made so far
    seen,             \* what getState or getHealth returned, while the caller holds it
    debate,           \* the DebateState held by debateStorage
    reqs              \* per request slot: the POST /api/debate/message in progress

breakerVars == <<state, failures, lastFailureTime, config>>
callVars == <<pc, probe, last, hist>>
retryVars == <<policy, rcall, rlast>>
groqVars == <<gcall, glast, gcount>>
debateVars == <<debate, reqs>>
appVars == <<seen, debate, reqs>>
vars == <<state, failures, lastFailureTime, config, now, pc, probe, last, hist,
          policy, rcall, rlast, gcall, glast, gcount, seen, debate, reqs>>

\* A settled execute call: whether it invoked its operation, whether it was
\* let through from the open state, what it settled with, and what its
\* operation settled with.
Settled(inv, pr, res, opRes) ==
    [invoked |-> inv, probe |-> pr, result |-> res, opResult |-> opRes]
NoCall == Settled(FALSE, FALSE, NoResult, NoResult)

\* new CircuitBreaker({failureThreshold, recoveryTimeout})
CircuitBreakerInit ==
    /\ failures = 0
    /\ lastFailureTime = 0
    /\ state = CLOSED
    /\ config \in [failureThreshold : 1..MaxThreshold, recoveryTimeout : {RecoveryTimeout}]

\* No execute call made yet, no withRetry call made yet.
NoCalls ==
    /\ pc = [c \in Callers |-> "idle"]
    /\ probe = {}
    /\ last = NoCall
    /\ hist = <<>>

NoRetries ==
    /\ rcall = [c \in Callers |-> IdleFrame]
    /\ rlast = NoRetryCall
    /\ gcall = [c \in Callers |-> IdleGroq]
    /\ glast = NoGroqCall
    /\ gcount = 0
    /\ seen = NoRead
    /\ debate = createDebate
    /\ reqs = [r \in Requests |-> IdleRequest]

\* DEFAULT_RETRY_OPTIONS
DEFAULT_RETRY_OPTIONS ==
    [maxRetries |-> 3, initialDelay |-> 1000, maxDelay |-> 10000, backoffFactor |-> 2,
     retryCondition |-> "default", onRetry |-> "none"]

\* Callers of breaker.execute(operation) on one breaker.
Init ==
    /\ CircuitBreakerInit
    /\ now = 1
    /\ NoCalls
    /\ policy = DEFAULT_RETRY_OPTIONS
    /\ NoRetries

\* Callers of groqClient.generateResponse(messages). The breaker is the
\* module's new CircuitBreaker(), which outlives the calls: it starts as
\* constructed, or closed and one failure short of opening, as
\* failureThreshold - 1 calls that failed at the present instant leave it.
InitGroq ==
    /\ config = DefaultBreakerConfig
    /\ now = 1
    /\ failures \in {0, config.failureThreshold - 1}
    /\ lastFailureTime = IF failures = 0 THEN 0 ELSE now
    /\ state = CLOSED
    /\ pc = [c \in Callers |-> "idle"]
    /\ probe = {}
    /\ last = NoCall
    /\ hist = [i \in 1..failures |-> "fail"]
    /\ policy = GroqRetryOptions
    /\ NoRetries

\* Callers of withRetry(operation, options), one call at a time.
InitRetry ==
    /\ CircuitBreakerInit
    /\ config.failureThreshold = 1
    /\ now = 1
    /\ NoCalls
    /\ policy \in Policies
    /\ NoRetries

\* ---------------------------------------------------------- CircuitBreaker
\* The recovery check with the subtraction the wrong way round.
RecoveryElapsed_Swapped == lastFailureTime - now < config.recoveryTimeout

\* Date.now() - this.lastFailureTime > this.config.recoveryTimeout
RecoveryElapsed == now - lastFailureTime > config.recoveryTimeout

\* onSuccess() that closes the circuit and keeps the failure count.
onSuccess_KeepsCount ==
    /\ state' = CLOSED
    /\ UNCHANGED <<failures, lastFailureTime, config>>

\* onSuccess() that clears the failure count and leaves the state as it is.
onSuccess_KeepsState ==
    /\ failures' = 0
    /\ UNCHANGED <<state, lastFailureTime, config>>

\* onSuccess()
onSuccess ==
    /\ failures' = 0
    /\ state' = CLOSED
    /\ UNCHANGED <<lastFailureTime, config>>

\* onFailure() that opens only above the threshold (> for >=).
onFailure_OpensLate ==
    /\ failures' = failures + 1
    /\ lastFailureTime' = now
    /\ state' = IF failures + 1 > config.failureThreshold THEN OPEN ELSE state
    /\ UNCHANGED config

\* onFailure() that leaves a half-open circuit half-open after a failed probe.
onFailure_ProbeStaysHalfOpen ==
    /\ failures' = failures + 1
    /\ lastFailureTime' = now
    /\ state' = IF failures + 1 >= config.failureThreshold /\ state # HALF_OPEN
                THEN OPEN ELSE state
    /\ UNCHANGED config

\* onFailure() that records the time of the first failure only.
onFailure_KeepsTime ==
    /\ failures' = failures + 1
    /\ lastFailureTime' = IF lastFailureTime = 0 THEN now ELSE lastFailureTime
    /\ state' = IF failures + 1 >= config.failureThreshold THEN OPEN ELSE state
    /\ UNCHANGED config

\* onFailure() that loses the update when another call is in flight.
onFailure_LostUpdate ==
    /\ failures' = IF Cardinality({c \in Callers : pc[c] = "awaitOp"}) > 1
                   THEN failures ELSE failures + 1
    /\ lastFailureTime' = now
    /\ state' = IF failures' >= config.failureThreshold THEN OPEN ELSE state
    /\ UNCHANGED config

\* onFailure()
onFailure ==
    /\ failures' = failures + 1
    /\ lastFailureTime' = now
    /\ state' = IF failures + 1 >= config.failureThreshold THEN OPEN ELSE state
    /\ UNCHANGED config

\* execute that records a rejected call as a failure: the count and the
\* time of the last failure move.
executeEnter_CountsRejection(c) ==
    IF state = OPEN /\ ~RecoveryElapsed
    THEN /\ last' = Settled(FALSE, FALSE, Rejected(CircuitOpenError), NoResult)
         /\ failures' = failures + 1
         /\ lastFailureTime' = now
         /\ UNCHANGED <<state, config, pc, probe>>
    ELSE /\ state' = IF state = OPEN THEN HALF_OPEN ELSE state
         /\ pc' = [pc EXCEPT ![c] = "awaitOp"]
         /\ probe' = IF state = OPEN THEN probe \cup {c} ELSE probe
         /\ UNCHANGED <<failures, lastFailureTime, config, last>>

\* execute, up to the await: the open check, then the operation is invoked.
executeEnter(c) ==
    IF state = OPEN /\ ~RecoveryElapsed
    THEN /\ last' = Settled(FALSE, FALSE, Rejected(CircuitOpenError), NoResult)
         /\ UNCHANGED <<breakerVars, pc, probe>>
    ELSE /\ state' = IF state = OPEN THEN HALF_OPEN ELSE state
         /\ pc' = [pc EXCEPT ![c] = "awaitOp"]
         /\ probe' = IF state = OPEN THEN probe \cup {c} ELSE probe
         /\ UNCHANGED <<failures, lastFailureTime, config, last>>

\* execute, after the await, the operation having resolved with v:
\* onSuccess(), return result.
executeResolve(c, v) ==
    /\ last' = Settled(TRUE, c \in probe, Resolved(v), Resolved(v))
    /\ onSuccess
    /\ pc' = [pc EXCEPT ![c] = "idle"]
    /\ probe' = probe \ {c}
    /\ hist' = Append(hist, "ok")

\* execute whose catch block counts the failure and returns normally.
executeReject_Swallows(c, e) ==
    /\ last' = Settled(TRUE, c \in probe, Resolved(NoVal), Rejected(e))
    /\ onFailure
    /\ pc' = [pc EXCEPT ![c] = "idle"]
    /\ probe' = probe \ {c}
    /\ hist' = Append(hist, "fail")

\* execute, after the await, the operation having rejected with e:
\* onFailure(), throw error.
executeReject(c, e) ==
    /\ last' = Settled(TRUE, c \in probe, Rejected(e), Rejected(e))
    /\ onFailure
    /\ pc' = [pc EXCEPT ![c] = "idle"]
    /\ probe' = probe \ {c}
    /\ hist' = Append(hist, "fail")

\* A caller calls execute(operation).
ExecuteEnter(c) ==
    /\ pc[c] = "idle"
    /\ executeEnter(c)
    /\ UNCHANGED <<now, hist, retryVars, groqVars, appVars>>

\* The operation of a call resolves.
ExecuteOpResolves(c) ==
    /\ pc[c] = "awaitOp"
    /\ Len(hist) < MaxHist
    /\ \E v \in Values : executeResolve(c, v)
    /\ UNCHANGED <<now, retryVars, groqVars, appVars>>

\* The operation of a call rejects.
ExecuteOpRejects(c) ==
    /\ pc[c] = "awaitOp"
    /\ Len(hist) < MaxHist
    /\ \E e \in BreakerOpErrors : executeReject(c, e)
    /\ UNCHANGED <<now, retryVars, groqVars, appVars>>

\* reset() that clears the counters and leaves the state as it is.
resetFields_KeepsState ==
    /\ failures' = 0
    /\ lastFailureTime' = 0
    /\ hist' = Append(hist, "reset")
    /\ UNCHANGED <<state, config, pc, probe, last>>

\* reset()
resetFields ==
    /\ failures' = 0
    /\ lastFailureTime' = 0
    /\ state' = CLOSED
    /\ hist' = Append(hist, "reset")
    /\ UNCHANGED <<config, pc, probe, last>>

\* A caller calls reset().
reset ==
    /\ Len(hist) < MaxHist
    /\ resetFields
    /\ UNCHANGED <<now, retryVars, groqVars, appVars>>

\* getHealth() that also reports a next attempt time when HalfOpen.
Health_NextWhenNotClosed ==
    Read("getHealth", state, failures,
         IF lastFailureTime # 0 THEN lastFailureTime ELSE Null,
         IF state # CLOSED THEN lastFailureTime + config.recoveryTimeout ELSE Null)

\* The value of getHealth()
Health ==
    Read("getHealth", state, failures,
         IF lastFailureTime # 0 THEN lastFailureTime ELSE Null,
         IF state = OPEN THEN lastFailureTime + config.recoveryTimeout ELSE Null)

\* A caller calls getHealth().
getHealth ==
    /\ seen' = Health
    /\ UNCHANGED <<breakerVars, callVars, now, retryVars, groqVars, debateVars>>

\* getState() that moves an open breaker whose recovery period is over to
\* HalfOpen before it answers.
getState_Refreshes ==
    /\ state' = IF state = OPEN /\ RecoveryElapsed THEN HALF_OPEN ELSE state
    /\ seen' = Read("getState", state', Null, Null, Null)
    /\ UNCHANGED <<failures, lastFailureTime, config, callVars, now, retryVars, groqVars, debateVars>>

\* A caller calls getState().
getState ==
    /\ seen' = Read("getState", state, Null, Null, Null)
    /\ UNCHANGED <<breakerVars, callVars, now, retryVars, groqVars, debateVars>>

\* The caller of an accessor is done with the value it got.
Drop ==
    /\ seen # NoRead
    /\ seen' = NoRead
    /\ UNCHANGED <<breakerVars, callVars, now, retryVars, groqVars, debateVars>>

\* The clock advances.
Tick ==
    /\ now < MaxTime
    /\ now' = now + 1
    /\ UNCHANGED <<breakerVars, callVars, retryVars, groqVars, appVars>>

Next ==
    \/ \E c \in Callers : ExecuteEnter(c)
    \/ \E c \in Callers : ExecuteOpResolves(c)
    \/ \E c \in Callers : ExecuteOpRejects(c)
    \/ reset
    \/ Tick

Spec == Init /\ [][Next]_vars

\* The breaker with its accessors: they are synchronous, so a value read is
\* looked at before anything else happens.
NextHealth ==
    \/ (seen = NoRead /\ Next)
    \/ getState
    \/ getHealth
    \/ Drop

SpecHealth == Init /\ [][NextHealth]_vars

\* An operator calls reset(); it returns nothing, and the record notes that
\* no execute call has been made since.
AdminReset ==
    /\ Len(hist) < MaxHist
    /\ resetFields
    /\ seen' = Read("reset", Null, Null, Null, Null)
    /\ UNCHANGED <<now, retryVars, groqVars, debateVars>>

\* The first execute call made after a reset().
ExecuteAfterReset(c) ==
    /\ seen.op = "reset"
    /\ pc[c] = "idle"
    /\ executeEnter(c)
    /\ seen' = NoRead
    /\ UNCHANGED <<now, hist, retryVars, groqVars, debateVars>>

\* The breaker with an operator who resets it while calls are in flight.
NextReset ==
    \/ AdminReset
    \/ \E c \in Callers : ExecuteAfterReset(c)
    \/ \E c \in Callers : seen = NoRead /\ ExecuteEnter(c)
    \/ \E c \in Callers : ExecuteOpResolves(c)
    \/ \E c \in Callers : ExecuteOpRejects(c)
    \/ Tick

SpecReset == Init /\ [][NextReset]_vars

\* The breaker in front of a service that is down until FailUntil and up
\* from then on: operations reject only up to that instant; callers keep
\* calling, operations settle and the clock advances.
NextRecover ==
    \/ \E c \in Callers : ExecuteEnter(c)
    \/ \E c \in Callers : ExecuteOpResolves(c)
    \/ \E c \in Callers : now <= FailUntil /\ ExecuteOpRejects(c)
    \/ Tick

SpecRecover ==
    /\ Init
    /\ [][NextRecover]_vars
    /\ WF_vars(\E c \in Callers : ExecuteEnter(c))
    /\ WF_vars(\E c \in Callers : ExecuteOpResolves(c))
    /\ WF_vars(Tick)

\* ----------------------------------------------- POST /api/debate/message
\* The handler up to `await callGroq(messages)`: 404 for an unknown debate,
\* 400 for a complete one, else the participant is determined and the
\* prompt built from the debate as it is now.
PostEnter(r, debateId, curveball) ==
    /\ reqs[r].pc = "idle"
    /\ reqs' = [reqs EXCEPT ![r] =
          IF debateId # "debate" THEN Responded(404)
          ELSE IF isDebateComplete(debate.currentTurn) THEN Responded(400)
          ELSE LET currentParticipantId == getNextParticipant(debate.currentTurn)
               IN  Request("callGroq", currentParticipantId, curveball,
                           buildPrompt(debate.currentTurn,
                                       getDebatePhase(debate.currentTurn),
                                       LastOpponentMessage(debate.messages, currentParticipantId),
                                       curveball),
                           0)]
    /\ UNCHANGED <<debate, breakerVars, callVars, now, retryVars, groqVars, seen>>

\* The handler computing the phase from the turn of the message it stores,
\* as the flow test's helper does, instead of from the turn it advanced to.
PostGroqResolves_PhaseOfMessage(r) ==
    /\ reqs[r].pc = "callGroq"
    /\ LET newMessage == [participantId |-> reqs[r].participantId,
                          turn |-> debate.currentTurn]
       IN  debate' = [messages |-> Append(debate.messages, newMessage),
                      currentTurn |-> debate.currentTurn + 1,
                      phase |-> getDebatePhase(newMessage.turn),
                      curveball |-> IF Truthy(reqs[r].curveball)
                                    THEN reqs[r].curveball ELSE debate.curveball]
    /\ reqs' = [reqs EXCEPT ![r] = Responded(200)]
    /\ UNCHANGED <<breakerVars, callVars, now, retryVars, groqVars, seen>>

\* callGroq resolved: the message is created from the participant determined
\* before the await and the debate's turn as it is now, pushed, the turn
\* advanced, the curveball recorded, the debate saved; 200.
PostGroqResolves(r) ==
    /\ reqs[r].pc = "callGroq"
    /\ LET newMessage == [participantId |-> reqs[r].participantId,
                          turn |-> debate.currentTurn]
       IN  debate' = [messages |-> Append(debate.messages, newMessage),
                      currentTurn |-> debate.currentTurn + 1,
                      phase |-> getDebatePhase(debate.currentTurn + 1),
                      curveball |-> IF Truthy(reqs[r].curveball)
                                    THEN reqs[r].curveball ELSE debate.curveball]
    /\ reqs' = [reqs EXCEPT ![r] = Responded(200)]
    /\ UNCHANGED <<breakerVars, callVars, now, retryVars, groqVars, seen>>

\* The handler recording the curveball before it calls Groq, so that a
\* failed call leaves it on the debate.
PostGroqRejects_KeepsCurveball(r) ==
    /\ reqs[r].pc = "callGroq"
    /\ reqs' = [reqs EXCEPT ![r] = Responded(500)]
    /\ debate' = [debate EXCEPT !.curveball = IF Truthy(reqs[r].curveball)
                                              THEN reqs[r].curveball ELSE @]
    /\ UNCHANGED <<breakerVars, callVars, now, retryVars, groqVars, seen>>

\* callGroq rejected: the catch block answers 500.
PostGroqRejects(r) ==
    /\ reqs[r].pc = "callGroq"
    /\ reqs' = [reqs EXCEPT ![r] = Responded(500)]
    /\ UNCHANGED <<debate, breakerVars, callVars, now, retryVars, groqVars, seen>>

NextDebate ==
    \/ \E r \in Requests, debateId \in DebateIds, curveball \in Curveballs :
          PostEnter(r, debateId, curveball)
    \/ \E r \in Requests : PostGroqResolves(r)
    \/ \E r \in Requests : PostGroqRejects(r)

SpecDebate == Init /\ [][NextDebate]_vars

\* ------------------------------------------------- withRetry(operation, options)
\* A caller calls withRetry (no call is made after MaxTime).
RetryStart(c) ==
    /\ \A d \in Callers : rcall[d].pc = "idle"
    /\ now <= MaxTime
    /\ rcall' = [rcall EXCEPT ![c] = withRetryEnter]
    /\ rlast' = NoRetryCall
    /\ UNCHANGED <<breakerVars, callVars, now, policy, groqVars, appVars>>

\* What a step of withRetry leaves: the call goes on, or it has settled.
RetryStep(c, s) ==
    /\ rcall' = [rcall EXCEPT ![c] = IF s.settled THEN IdleFrame ELSE s.frame]
    /\ rlast' = IF s.settled THEN s ELSE rlast

\* The operation resolves.
RetryOpResolves(c) ==
    /\ rcall[c].pc = "awaitOp"
    /\ \E v \in Values : RetryStep(c, withRetryResolve(rcall[c], v))
    /\ UNCHANGED <<breakerVars, callVars, now, policy, groqVars, appVars>>

\* The operation rejects.
RetryOpRejects(c) ==
    /\ rcall[c].pc = "awaitOp"
    /\ \E e \in RetryFailures, r \in Randoms :
          RetryStep(c, withRetryCatch(rcall[c], policy, e, r, now))
    /\ UNCHANGED <<breakerVars, callVars, now, policy, groqVars, appVars>>

\* The sleep's timer fires.
RetryWake(c) ==
    /\ rcall[c].pc = "sleep"
    /\ now' = IF rcall[c].wakeAt > now THEN rcall[c].wakeAt ELSE now
    /\ RetryStep(c, withRetryWake(rcall[c], policy))
    /\ UNCHANGED <<breakerVars, callVars, policy, groqVars, appVars>>

NextRetry ==
    \/ \E c \in Callers : RetryStart(c)
    \/ \E c \in Callers : RetryOpResolves(c)
    \/ \E c \in Callers : RetryOpRejects(c)
    \/ \E c \in Callers : RetryWake(c)

SpecRetry == InitRetry /\ [][NextRetry]_vars

\* withRetry with operations whose every invocation completes and timers
\* that fire.
SpecRetryFair ==
    /\ InitRetry
    /\ [][NextRetry]_vars
    /\ \A c \in Callers : WF_vars(RetryOpResolves(c) \/ RetryOpRejects(c))
    /\ \A c \in Callers : WF_vars(RetryWake(c))

\* ------------------------------ withRetry(() => breaker.execute(operation))
\* The policies of the wrapped calls: the integration test's (1 ms), one
\* that retries at once; every failure retried, or the default predicate.
WrapPolicies ==
    {p \in Policies : /\ p.onRetry = "none"
                      /\ p.retryCondition \in {"always", "default"}
                      /\ p.initialDelay <= 1}

\* The failures of the guarded operation: it always fails, with a failure
\* the policy retries.
WrapFailures == {e \in {ServiceDown, NetworkError} : RetryCondition(policy.retryCondition, e)}

InitWrap ==
    /\ CircuitBreakerInit
    /\ now = 1
    /\ NoCalls
    /\ policy \in WrapPolicies
    /\ NoRetries

\* withRetry, its frame being f, invokes its operation: breaker.execute
\* rejects at once, which withRetry's catch block handles, or it invokes the
\* guarded operation.
WrapInvoke(c, f, r) ==
    /\ executeEnter(c)
    /\ IF state = OPEN /\ ~RecoveryElapsed
       THEN RetryStep(c, withRetryCatch(f, policy, CircuitOpenError, r, now))
       ELSE RetryStep(c, RetryPending(f))

\* A caller calls withRetry(() => breaker.execute(operation), options).
WrapStart(c) ==
    /\ rcall[c].pc = "idle"
    /\ \E r \in Randoms : WrapInvoke(c, withRetryEnter, r)
    /\ UNCHANGED <<now, hist, policy, groqVars, appVars>>

\* The guarded operation rejects: execute counts the failure and rethrows,
\* and withRetry's catch block handles it.
WrapOpRejects(c) ==
    /\ rcall[c].pc = "awaitOp"
    /\ Len(hist) < MaxHist
    /\ \E e \in WrapFailures, r \in Randoms :
          /\ executeReject(c, e)
          /\ RetryStep(c, withRetryCatch(rcall[c], policy, e, r, now))
    /\ UNCHANGED <<now, policy, groqVars, appVars>>

\* The sleep's timer has fired: the next attempt.
WrapWake(c) ==
    /\ rcall[c].pc = "sleep"
    /\ now >= rcall[c].wakeAt
    /\ LET s == withRetryWake(rcall[c], policy)
       IN  IF s.settled
           THEN RetryStep(c, s) /\ UNCHANGED <<breakerVars, pc, probe, last>>
           ELSE \E r \in Randoms : WrapInvoke(c, s.frame, r)
    /\ UNCHANGED <<now, hist, policy, groqVars, appVars>>

NextWrap ==
    \/ \E c \in Callers : WrapStart(c)
    \/ \E c \in Callers : WrapOpRejects(c)
    \/ \E c \in Callers : WrapWake(c)
    \/ Tick

SpecWrap == InitWrap /\ [][NextWrap]_vars

\* ------------------------------------------ GroqClient.generateResponse
\* The next caller calls generateResponse (callers are numbered in the order
\* of their calls): the breaker rejects the call, which the
\* catch block turns into a GroqAPIError, or the guarded operation starts
\* fetchWithRetry, whose first attempt starts the fetch and its abort timer.
GroqEnter(c) ==
    /\ c = gcount + 1
    /\ pc[c] = "idle"
    /\ gcount < MaxGroqCalls
    /\ gcount' = gcount + 1
    /\ executeEnter(c)
    /\ IF state = OPEN /\ ~RecoveryElapsed
       THEN /\ glast' = GroqSettled(Rejected(GroqErrorOf(CircuitOpenError)), FALSE, 0, FALSE)
            /\ UNCHANGED <<rcall, gcall>>
       ELSE /\ rcall' = [rcall EXCEPT ![c] = withRetryEnter]
            /\ gcall' = [gcall EXCEPT ![c] = [pc |-> "fetch", deadline |-> now + GroqTimeout,
                                              fetches |-> 0]]
            /\ UNCHANGED glast
    /\ UNCHANGED <<now, hist, policy, rlast, appVars>>

\* The guarded operation rejects with e: onFailure, and the catch block of
\* generateResponse throws its GroqAPIError.
GroqFails(c, e, n, ok) ==
    /\ executeReject(c, e)
    /\ glast' = GroqSettled(Rejected(GroqErrorOf(e)), TRUE, n, ok)
    /\ rcall' = [rcall EXCEPT ![c] = IdleFrame]
    /\ gcall' = [gcall EXCEPT ![c] = IdleGroq]

\* A step s of the withRetry call inside fetchWithRetry: it goes on (a new
\* attempt starts a fetch and its abort timer), or it has thrown.
GroqRetryStep(c, s) ==
    IF s.settled
    THEN GroqFails(c, s.result.err, s.frame.opCalls, FALSE)
    ELSE /\ rcall' = [rcall EXCEPT ![c] = s.frame]
         /\ gcall' = [gcall EXCEPT ![c].deadline =
                         IF s.frame.pc = "awaitOp" THEN now + GroqTimeout ELSE 0]
         /\ UNCHANGED <<breakerVars, callVars, glast>>

\* The fetch in flight is answered before its abort timer fires: an ok
\* response is returned by fetchWithRetry, another is thrown as an Error.
GroqFetchResponds(c) ==
    /\ gcall[c].pc = "fetch" /\ rcall[c].pc = "awaitOp"
    /\ now <= gcall[c].deadline
    /\ \E status \in FetchStatuses :
          IF ResponseOk(status)
          THEN /\ rcall' = [rcall EXCEPT ![c] = IdleFrame]
               /\ gcall' = [gcall EXCEPT ![c] = [pc |-> "json", deadline |-> 0,
                                                 fetches |-> rcall[c].opCalls]]
               /\ UNCHANGED <<breakerVars, callVars, glast>>
          ELSE \E r \in GroqRandoms :
                  GroqRetryStep(c, withRetryCatch(rcall[c], policy, HttpError(status), r, now))
    /\ UNCHANGED <<now, policy, rlast, gcount, appVars>>

\* The fetch in flight fails (no connection).
GroqFetchFails(c) ==
    /\ gcall[c].pc = "fetch" /\ rcall[c].pc = "awaitOp"
    /\ now <= gcall[c].deadline
    /\ \E r \in GroqRandoms :
          GroqRetryStep(c, withRetryCatch(rcall[c], policy, NetworkError, r, now))
    /\ UNCHANGED <<now, policy, rlast, gcount, appVars>>

\* The abort timer fires: the AbortError becomes the timeout Error.
GroqFetchTimesOut(c) ==
    /\ gcall[c].pc = "fetch" /\ rcall[c].pc = "awaitOp"
    /\ now >= gcall[c].deadline
    /\ \E r \in GroqRandoms :
          GroqRetryStep(c, withRetryCatch(rcall[c], policy, TimeoutError, r, now))
    /\ UNCHANGED <<now, policy, rlast, gcount, appVars>>

\* The sleep before the next attempt ends.
GroqWake(c) ==
    /\ gcall[c].pc = "fetch" /\ rcall[c].pc = "sleep"
    /\ now >= rcall[c].wakeAt
    /\ GroqRetryStep(c, withRetryWake(rcall[c], policy))
    /\ UNCHANGED <<now, policy, rlast, gcount, appVars>>

\* response.json() settles and the choices are looked at: the content is
\* returned (onSuccess), or the operation throws (onFailure).
GroqJson(c) ==
    /\ gcall[c].pc = "json"
    /\ \/ \E v \in Values :
             /\ executeResolve(c, v)
             /\ glast' = GroqSettled(Resolved(v), TRUE, gcall[c].fetches, TRUE)
             /\ gcall' = [gcall EXCEPT ![c] = IdleGroq]
             /\ UNCHANGED rcall
       \/ \E e \in {NoResponseError, JsonError} :
             GroqFails(c, e, gcall[c].fetches, TRUE)
    /\ UNCHANGED <<now, policy, rlast, gcount, appVars>>

\* resetCircuitBreaker()
GroqReset ==
    /\ gcount < MaxGroqCalls
    /\ gcount' = gcount + 1
    /\ resetFields
    /\ UNCHANGED <<now, retryVars, gcall, glast, appVars>>

\* The instants at which something is due: a sleep ends, an abort timer
\* fires, the recovery period of the open breaker ends.
Due ==
    {rcall[c].wakeAt : c \in {d \in Callers : rcall[d].pc = "sleep"}}
        \cup {gcall[c].deadline : c \in {d \in Callers : rcall[d].pc = "awaitOp"}}
        \cup (IF state = OPEN
              THEN {lastFailureTime + config.recoveryTimeout,
                    lastFailureTime + config.recoveryTimeout + 1}
              ELSE {})

\* The clock advances to the next instant at which something is due.
GroqAdvance ==
    /\ \E t \in Due :
          /\ t > now
          /\ \A u \in Due : u > now => t <= u
          /\ now' = t
    /\ UNCHANGED <<breakerVars, callVars, retryVars, groqVars, appVars>>

NextGroq ==
    \/ \E c \in Callers : GroqEnter(c)
    \/ \E c \in Callers : GroqFetchResponds(c)
    \/ \E c \in Callers : GroqFetchFails(c)
    \/ \E c \in Callers : GroqFetchTimesOut(c)
    \/ \E c \in Callers : GroqWake(c)
    \/ \E c \in Callers : GroqJson(c)
    \/ GroqReset
    \/ GroqAdvance

SpecGroq == InitGroq /\ [][NextGroq]_vars

\* What getCircuitBreakerStatus() returns.
Status(st, can) == [op |-> "getCircuitBreakerStatus", state |-> st, canExecute |-> can]

\* A caller calls groqClient.getCircuitBreakerStatus(): the state read with
\* getState(), and canExecute: state !== 'open'.
getCircuitBreakerStatus ==
    /\ seen = NoRead
    /\ seen' = Status(state, state # OPEN)
    /\ UNCHANGED <<breakerVars, callVars, now, retryVars, groqVars, debateVars>>

\* The caller that has just read the status calls generateResponse in the
\* same synchronous run, so at the same instant and on the same breaker.
GenerateAfterStatus(c) ==
    /\ seen # NoRead
    /\ seen' = NoRead
    /\ c = gcount + 1
    /\ pc[c] = "idle"
    /\ gcount < MaxGroqCalls
    /\ gcount' = gcount + 1
    /\ executeEnter(c)
    /\ IF state = OPEN /\ ~RecoveryElapsed
       THEN /\ glast' = GroqSettled(Rejected(GroqErrorOf(CircuitOpenError)), FALSE, 0, FALSE)
            /\ UNCHANGED <<rcall, gcall>>
       ELSE /\ rcall' = [rcall EXCEPT ![c] = withRetryEnter]
            /\ gcall' = [gcall EXCEPT ![c] = [pc |-> "fetch", deadline |-> now + GroqTimeout,
                                              fetches |-> 0]]
            /\ UNCHANGED glast
    /\ UNCHANGED <<now, hist, policy, rlast, debateVars>>

\* The Groq client with its status accessor: the accessor is synchronous,
\* so the value read is used or dropped before anything else happens.
NextGroqStatus ==
    \/ (seen = NoRead /\ NextGroq)
    \/ getCircuitBreakerStatus
    \/ \E c \in Callers : GenerateAfterStatus(c)
    \/ Drop

SpecGroqStatus == InitGroq /\ [][NextGroqStatus]_vars

\* ------------------------------------------------ the breaker's properties
\* The number of operations that failed since the last one that succeeded
\* (or the last reset, or construction): the trailing "fail" entries of h.
RECURSIVE TrailingFails(_)
TrailingFails(h) ==
    IF h = <<>> \/ h[Len(h)] # "fail" THEN 0
    ELSE 1 + TrailingFails(SubSeq(h, 1, Len(h) - 1))

\* Steps of execute, as seen on the state.
InvokesOp(c) == pc[c] = "idle" /\ pc'[c] = "awaitOp"
OpFailed(c) == pc[c] = "awaitOp" /\ pc'[c] = "idle" /\ last'.opResult.tag = "error"
OpSucceeded(c) == pc[c] = "awaitOp" /\ pc'[c] = "idle" /\ last'.opResult.tag = "value"
RejectsCall == pc' = pc /\ hist' = hist /\ now' = now /\ last' # last
Elapsed == now - lastFailureTime

\* C1: with failureThreshold = T, the T-th consecutive operation failure
\* leaves the breaker Open; every call made while it was Closed invoked its
\* operation (so did each of the T failing ones); and after T consecutive
\* failures no call made before recoveryTimeout has elapsed invokes its
\* operation: it is rejected.
C1_OpensAtThreshold ==
    [][ /\ \A c \in Callers :
              OpFailed(c) =>
                 /\ last'.invoked
                 /\ (TrailingFails(hist') >= config.failureThreshold => state' = OPEN)
        /\ (state = CLOSED => ~RejectsCall)
        /\ (TrailingFails(hist) >= config.failureThreshold
                /\ Elapsed < config.recoveryTimeout)
              => /\ \A c \in Callers : ~InvokesOp(c)
                 /\ (RejectsCall => /\ last'.result = Rejected(CircuitOpenError)
                                    /\ ~last'.invoked)
       ]_vars

\* C1 witness: threshold 3, three failures in a row, then a call rejected
\* without its operation being invoked.
C1_Witness ==
    /\ config.failureThreshold = 3
    /\ hist = <<"fail", "fail", "fail">>
    /\ state = OPEN
    /\ last.result = Rejected(CircuitOpenError)
    /\ ~last.invoked

\* C2: while the breaker is Open and less than recoveryTimeout has elapsed
\* since lastFailureTime, no call invokes its operation, and a call made
\* then settles at once with the circuit-open error.
C2_OpenRejects ==
    [][ (state = OPEN /\ Elapsed < config.recoveryTimeout)
          => /\ \A c \in Callers : ~InvokesOp(c)
             /\ (RejectsCall => /\ last'.result = Rejected(CircuitOpenError)
                                /\ ~last'.invoked
                                /\ last'.opResult = NoResult)
       ]_vars

\* C2 witness: a call rejected with the circuit-open error while Open and
\* inside the recovery period, some time after the failure that opened it.
C2_Witness ==
    /\ state = OPEN
    /\ Elapsed = config.recoveryTimeout - 1
    /\ Elapsed > 0
    /\ last.result = Rejected(CircuitOpenError)
    /\ ~last.invoked

\* C3: once the breaker is Open and more than recoveryTimeout has elapsed,
\* the next call is let through as the half-open probe (it is not rejected);
\* a probe that succeeds leaves the breaker Closed with failure count 0, and
\* a probe that fails while the breaker is still HalfOpen leaves it Open.
C3_HalfOpenProbe ==
    [][ /\ (state = OPEN /\ Elapsed > config.recoveryTimeout)
            => /\ ~RejectsCall
               /\ \A c \in Callers :
                     InvokesOp(c) => (state' = HALF_OPEN /\ c \in probe')
        /\ \A c \in probe :
              /\ (OpSucceeded(c) => (state' = CLOSED /\ failures' = 0))
              /\ ((OpFailed(c) /\ state = HALF_OPEN) => state' = OPEN)
       ]_vars

\* C3 witnesses: a probe that succeeded, and one that failed.
C3_Witness ==
    /\ last.probe
    /\ last.result.tag = "value"
    /\ state = CLOSED
    /\ failures = 0
    /\ hist[Len(hist)] = "ok"

C3_WitnessFailedProbe ==
    /\ last.probe
    /\ last.result.tag = "error"
    /\ last.invoked
    /\ state = OPEN

\* C4: the failure count is the number of operation failures since the last
\* success (a success resets it to 0), and the breaker is away from Closed
\* only after failureThreshold failures with no success in between.
C4_ConsecutiveFailures ==
    /\ failures = TrailingFails(hist)
    /\ ((hist # <<>> /\ hist[Len(hist)] = "ok") => failures = 0)
    /\ (state # CLOSED => TrailingFails(hist) >= config.failureThreshold)

\* C4 witness: threshold 3 and fail, fail, success, fail, fail: still Closed.
C4_Witness ==
    /\ config.failureThreshold = 3
    /\ hist = <<"fail", "fail", "ok", "fail", "fail">>
    /\ state = CLOSED
    /\ failures = 2

\* C11: a call whose operation the breaker invoked settles with exactly what
\* the operation settled with, its value or its failure, so a failure never
\* becomes a success; and a call settles with the circuit-open error only if
\* its operation was not invoked.
C11_Transparent ==
    /\ (last.invoked => (last.result.tag # "none" /\ last.result = last.opResult))
    /\ (last.opResult.tag = "error" => last.result.tag = "error")
    /\ (last.result = Rejected(CircuitOpenError) =>
            (~last.invoked /\ last.opResult = NoResult))
    /\ ((~last.invoked /\ last.result.tag # "none") =>
            last.result = Rejected(CircuitOpenError))

\* C11 witness: a probe let through from the open state failed, and the
\* caller got the operation's own failure.
C11_Witness ==
    /\ last.invoked /\ last.probe
    /\ last.opResult = Rejected(ServiceDown)
    /\ last.result = Rejected(ServiceDown)
    /\ state = OPEN

\* C12: once the breaker is Open it leaves Open only through reset() or
\* through an execute call made when more than recoveryTimeout has passed
\* since lastFailureTime (which makes it HalfOpen), never because a call
\* that was already in flight settles.
C12_OpenUntilRecovery ==
    [][(state = OPEN /\ state' # OPEN) =>
          \/ hist' = Append(hist, "reset")
          \/ /\ state' = HALF_OPEN
             /\ Elapsed > config.recoveryTimeout
             /\ \E c \in Callers : InvokesOp(c)]_vars

\* C13: while the breaker is HalfOpen and the probe let through from the
\* open state is still in flight, no other execute call invokes its
\* operation.
C13_SingleProbe ==
    [][\A c \in Callers :
          (state = HALF_OPEN /\ (\E d \in probe : d # c /\ pc[d] = "awaitOp"))
              => ~InvokesOp(c)]_vars

\* No operation has failed since construction or the last reset().
NoFailureRecorded(h) ==
    ~\E i \in 1..Len(h) : h[i] = "fail" /\ \A j \in (i + 1)..Len(h) : h[j] # "reset"

\* C21: getHealth returns the current state and failure count; a
\* lastFailureTime that is null exactly when no failure was recorded since
\* construction or the last reset, and the time of the last failure
\* otherwise; a nextAttemptTime of lastFailureTime + recoveryTimeout exactly
\* when the state is Open, null otherwise; and Closed, 0, null, null for a
\* fresh breaker.
C21_HealthSnapshot ==
    seen.op = "getHealth" =>
        /\ seen.state = state
        /\ seen.failureCount = failures
        /\ (seen.lastFailureTime = Null <=> NoFailureRecorded(hist))
        /\ (seen.lastFailureTime # Null => seen.lastFailureTime = lastFailureTime)
        /\ (state = OPEN => seen.nextAttemptTime = lastFailureTime + config.recoveryTimeout)
        /\ (state # OPEN => seen.nextAttemptTime = Null)
        /\ (hist = <<>> => seen = Read("getHealth", CLOSED, 0, Null, Null))

\* C21 witness: the health of an open breaker, after a success in between.
C21_Witness ==
    /\ seen.op = "getHealth"
    /\ seen.state = OPEN
    /\ \E i \in 1..Len(hist) : hist[i] = "ok"
    /\ seen.lastFailureTime > 1
    /\ seen.nextAttemptTime = seen.lastFailureTime + config.recoveryTimeout
    /\ now >= seen.nextAttemptTime

\* C21 witness: the health of a half-open breaker has no next attempt time.
C21_WitnessHalfOpen ==
    /\ seen.op = "getHealth"
    /\ seen.state = HALF_OPEN
    /\ seen.lastFailureTime # Null
    /\ seen.nextAttemptTime = Null

\* C22: getState and getHealth change nothing: a step in which one of them
\* returns leaves state, failure count, lastFailureTime, the configuration
\* and the calls in progress as they were, so every later execute call
\* meets the breaker it would have met without it.
C22_AccessorsReadOnly ==
    [][seen' # NoRead =>
          /\ UNCHANGED <<state, failures, lastFailureTime, config>>
          /\ UNCHANGED <<pc, probe, last, hist, now>>
          /\ seen'.state = state]_vars

\* C22 witness: getState answered Open although the recovery period is over,
\* and the breaker is still Open.
C22_Witness ==
    /\ seen.op = "getState"
    /\ seen.state = OPEN
    /\ state = OPEN
    /\ RecoveryElapsed

\* The step is the first execute call after a reset().
FirstCallAfterReset == seen.op = "reset" /\ seen' = NoRead

\* The step invokes the operation of the call it starts.
CallInvoked == \E c \in Callers : pc[c] = "idle" /\ pc'[c] = "awaitOp"

ServiceUp ==
    /\ now > FailUntil
    /\ lastFailureTime + config.recoveryTimeout < MaxTime
    /\ Len(hist) < MaxHist

\* C25: once every invoked operation succeeds, with callers that keep
\* calling and a clock that advances, a breaker that is Open (or HalfOpen)
\* becomes Closed and stays Closed from then on.
C25_Recovers ==
    (state # CLOSED /\ ServiceUp) ~> [](state = CLOSED)

\* C25 witness: the breaker is Open, the service is up again, no call is in
\* flight and the recovery period has not ended yet.
C25_Witness ==
    /\ state = OPEN
    /\ ServiceUp
    /\ \A c \in Callers : pc[c] = "idle"
    /\ ~RecoveryElapsed

\* ------------------------------------------------- withRetry's properties
\* <<1, ..., n>>
UpTo(n) == [i \in 1..n |-> i]

\* The withRetry call that settled last: its counters.
Done == rlast.settled
Final == rlast.frame
OpFailedLast == rlast.opResult.tag = "error"

\* C5: with maxRetries = N, an operation whose every failure is retryable
\* and an onRetry that returns, a call whose operation never succeeds
\* invokes the operation exactly N+1 times and onRetry exactly N times, with
\* the attempt numbers 1..N in order, and rejects with the last failure.
C5_RetryBudgetExact ==
    (Done /\ OpFailedLast /\ Final.allRetryable /\ policy.onRetry = "observer")
        => /\ Final.opCalls = policy.maxRetries + 1
           /\ Final.retryLog = UpTo(policy.maxRetries)
           /\ rlast.result = Rejected(rlast.opResult.err)

\* C5 witness: maxRetries 2, three failing invocations, onRetry(.., 1) and
\* onRetry(.., 2), then the rejection.
C5_Witness ==
    /\ Done /\ OpFailedLast /\ Final.allRetryable
    /\ policy.onRetry = "observer"
    /\ policy.maxRetries = 2
    /\ Final.opCalls = 3
    /\ Final.retryLog = <<1, 2>>
    /\ rlast.result.tag = "error"

\* C6: a call that returns a value returns the value its operation resolved
\* with at its k-th invocation, 1 <= k <= maxRetries + 1; the operation was
\* invoked exactly k times, and retryCondition, onRetry (when given) and the
\* sleep each ran exactly k-1 times before it.
C6_SuccessEndsRetries ==
    (Done /\ rlast.result.tag = "value")
        => /\ rlast.opResult.tag = "value"
           /\ rlast.result.val = rlast.opResult.val
           /\ Final.attempt \in 1..(policy.maxRetries + 1)
           /\ Final.opCalls = Final.attempt
           /\ Final.condCalls = Final.attempt - 1
           /\ Final.sleeps = Final.attempt - 1
           /\ Final.retryLog = IF policy.onRetry = "none" THEN <<>>
                               ELSE UpTo(Final.attempt - 1)

\* C6 witness: fail, fail, success with maxRetries 2.
C6_Witness ==
    /\ Done
    /\ rlast.result = Resolved("success")
    /\ policy.maxRetries = 2
    /\ Final.opCalls = 3
    /\ Final.retryLog = <<1, 2>>

\* C7: a call goes on (sleeps, invokes the operation again) only while
\* retryCondition held of every failure so far; when it is false of a
\* failure that is not the last allowed attempt's, the call rejects with
\* that failure at once: no further invocation, no onRetry and no sleep for it.
C7_NonRetryableStops ==
    /\ \A c \in Callers : rcall[c].pc # "idle" => rcall[c].allRetryable
    /\ (/\ Done /\ OpFailedLast
        /\ Final.attempt <= policy.maxRetries
        /\ ~RetryCondition(policy.retryCondition, rlast.opResult.err))
        => /\ rlast.result = Rejected(rlast.opResult.err)
           /\ Final.opCalls = Final.attempt
           /\ Final.sleeps = Final.attempt - 1
           /\ Final.retryLog = IF policy.onRetry = "none" THEN <<>>
                               ELSE UpTo(Final.attempt - 1)

\* C7 witness: maxRetries 2, 'Network error' retried, then 'Validation
\* error' on the second attempt propagated with one attempt still allowed.
C7_Witness ==
    /\ Done
    /\ policy.maxRetries = 2
    /\ policy.retryCondition = "Network"
    /\ policy.onRetry = "observer"
    /\ rlast.result = Rejected(ErrorOf("Validation error"))
    /\ Final.opCalls = 2
    /\ Final.retryLog = <<1>>

\* C8: a failure on attempt maxRetries + 1 is propagated as it is, without
\* retryCondition, onRetry or sleep running for it (each ran maxRetries
\* times, for the failures before); no call sleeps on its last allowed
\* attempt, so with maxRetries = 0 the operation is invoked once, no retry.
C8_LastAttemptPropagates ==
    /\ \A c \in Callers :
          /\ rcall[c].pc = "sleep" => rcall[c].attempt <= policy.maxRetries
          /\ rcall[c].opCalls <= policy.maxRetries + 1
    /\ (Done /\ OpFailedLast /\ Final.attempt = policy.maxRetries + 1)
        => /\ rlast.result = Rejected(rlast.opResult.err)
           /\ Final.opCalls = policy.maxRetries + 1
           /\ Final.condCalls = policy.maxRetries
           /\ Final.sleeps = policy.maxRetries
           /\ Len(Final.retryLog) = IF policy.onRetry = "none" THEN 0
                                    ELSE policy.maxRetries
    /\ (Done /\ policy.maxRetries = 0)
        => (Final.opCalls = 1 /\ Final.sleeps = 0 /\ Final.retryLog = <<>>)

\* C8 witnesses: maxRetries 0 and a retryable failure propagated after one
\* invocation; maxRetries 2 and the third failure propagated.
C8_Witness ==
    /\ Done
    /\ policy.maxRetries = 0
    /\ policy.retryCondition = "always"
    /\ rlast.result = Rejected(ErrorOf("fetch failed"))
    /\ Final.opCalls = 1
    /\ Final.condCalls = 0

C8_WitnessThirdAttempt ==
    /\ Done
    /\ policy.maxRetries = 2
    /\ Final.attempt = 3
    /\ rlast.result.tag = "error"
    /\ Final.condCalls = 2

\* C9: what the claim says the default retry condition returns: true
\* exactly when the failure's message tells of a fetch/network or timeout
\* fault, or the failure carries a status of 500-599, 408 or 429.
ClaimedRetryable(e) ==
    \/ Includes(e.message, "fetch")
    \/ Includes(e.message, "network")
    \/ Includes(e.message, "timeout")
    \/ e.status \in 500..599
    \/ e.status \in {408, 429}

\* C9: under the default retry condition, a failure before the last allowed
\* attempt is retried exactly when the claim says the condition is true.
C9_DefaultConditionAsClaimed ==
    policy.retryCondition = "default" =>
        /\ \A c \in Callers :
              rcall[c].pc = "sleep" => ClaimedRetryable(rcall[c].lastError)
        /\ (Done /\ OpFailedLast /\ Final.attempt <= policy.maxRetries)
              => ~ClaimedRetryable(rlast.opResult.err)

\* ----------------------------------------------------------- fetchWithRetry
\* A caller calls fetchWithRetry(url, {}, policy), one call at a time: the
\* first attempt starts the fetch and its abort timer.
FetchStart(c) ==
    /\ \A d \in Callers : rcall[d].pc = "idle" /\ gcall[d].pc = "idle"
    /\ now <= MaxTime
    /\ rcall' = [rcall EXCEPT ![c] = withRetryEnter]
    /\ gcall' = [gcall EXCEPT ![c] = [pc |-> "fetch", deadline |-> now + DefaultTimeout,
                                      fetches |-> 0]]
    /\ rlast' = NoRetryCall
    /\ UNCHANGED <<breakerVars, callVars, now, policy, glast, gcount, appVars>>

\* A step s of the withRetry call inside fetchWithRetry: it goes on (a new
\* attempt starts a fetch and its abort timer), or the call has settled.
FetchRetryStep(c, s) ==
    /\ IF s.settled
       THEN /\ rlast' = s
            /\ rcall' = [rcall EXCEPT ![c] = IdleFrame]
            /\ gcall' = [gcall EXCEPT ![c] = IdleGroq]
       ELSE /\ rcall' = [rcall EXCEPT ![c] = s.frame]
            /\ gcall' = [gcall EXCEPT ![c].deadline =
                            IF s.frame.pc = "awaitOp" THEN now + DefaultTimeout ELSE 0]
            /\ UNCHANGED rlast
    /\ UNCHANGED <<breakerVars, callVars, now, policy, glast, gcount, appVars>>

\* The fetch in flight is answered before its abort timer fires: an ok
\* response is returned, another is thrown as an Error.
FetchResponds(c) ==
    /\ gcall[c].pc = "fetch" /\ rcall[c].pc = "awaitOp"
    /\ now <= gcall[c].deadline
    /\ \E status \in UpstreamStatuses :
          IF ResponseOk(status)
          THEN \E v \in Values : FetchRetryStep(c, withRetryResolve(rcall[c], v))
          ELSE \E r \in Randoms :
                  FetchRetryStep(c, withRetryCatch(rcall[c], FetchRetryOptions(policy),
                                                   HttpError(status), r, now))

\* The fetch in flight fails (no connection).
FetchFails(c) ==
    /\ gcall[c].pc = "fetch" /\ rcall[c].pc = "awaitOp"
    /\ now <= gcall[c].deadline
    /\ \E r \in Randoms :
          FetchRetryStep(c, withRetryCatch(rcall[c], FetchRetryOptions(policy),
                                           NetworkError, r, now))

\* The abort timer fires: the AbortError becomes the timeout Error.
FetchTimesOut(c) ==
    /\ gcall[c].pc = "fetch" /\ rcall[c].pc = "awaitOp"
    /\ now >= gcall[c].deadline
    /\ \E r \in Randoms :
          FetchRetryStep(c, withRetryCatch(rcall[c], FetchRetryOptions(policy),
                                           DefaultTimeoutError, r, now))

\* The sleep before the next attempt ends.
FetchWake(c) ==
    /\ gcall[c].pc = "fetch" /\ rcall[c].pc = "sleep"
    /\ now >= rcall[c].wakeAt
    /\ FetchRetryStep(c, withRetryWake(rcall[c], FetchRetryOptions(policy)))

NextFetch ==
    \/ \E c \in Callers : FetchStart(c)
    \/ \E c \in Callers : FetchResponds(c)
    \/ \E c \in Callers : FetchFails(c)
    \/ \E c \in Callers : FetchTimesOut(c)
    \/ \E c \in Callers : FetchWake(c)
    \/ GroqAdvance

SpecFetch == InitRetry /\ [][NextFetch]_vars

\* fetchWithRetry against an upstream that never answers: only timers fire,
\* and a timer that is due fires.
NextFetchHang ==
    \/ \E c \in Callers : FetchStart(c)
    \/ \E c \in Callers : FetchTimesOut(c)
    \/ \E c \in Callers : FetchWake(c)
    \/ GroqAdvance

SpecFetchHang ==
    /\ InitRetry
    /\ [][NextFetchHang]_vars
    /\ WF_vars(\E c \in Callers : FetchTimesOut(c))
    /\ WF_vars(\E c \in Callers : FetchWake(c))
    /\ WF_vars(GroqAdvance)

\* min(initialDelay * backoffFactor^(k-1), maxDelay) for the policy in use.
DelayAt(k) ==
    LET e == policy.initialDelay * Pow(policy.backoffFactor, k - 1)
    IN  IF e <= policy.maxDelay THEN e ELSE policy.maxDelay

\* The delay a sleeping call computed before retry k is DelayAt(k) plus a
\* jitter of at most a tenth of it.
DelayAsComputed ==
    \A c \in Callers :
        rcall[c].pc = "sleep" =>
            \E j \in 0..999 : rcall[c].delay = DelayAt(rcall[c].attempt) * (10000 + j)

\* The cap is not reached at retry k + 1.
BelowCap(k) == policy.initialDelay * Pow(policy.backoffFactor, k) <= policy.maxDelay

\* C17 as stated: ignoring jitter, the delay before retry k is
\* min(initialDelay * backoffFactor^(k-1), maxDelay); it does not decrease
\* with k, and it grows strictly with k while backoffFactor > 1 and the cap
\* is not reached.
C17_BackoffAsClaimed ==
    /\ DelayAsComputed
    /\ \A k \in 1..(MaxRetries + 1) : DelayAt(k) <= DelayAt(k + 1)
    /\ \A k \in 1..(MaxRetries + 1) :
          (policy.backoffFactor > 1 /\ BelowCap(k)) => DelayAt(k) < DelayAt(k + 1)

\* C17, amended: the same, the strict growth for initialDelay > 0 only.
C17_Backoff ==
    /\ DelayAsComputed
    /\ \A k \in 1..(MaxRetries + 1) : DelayAt(k) <= DelayAt(k + 1)
    /\ \A k \in 1..(MaxRetries + 1) :
          (policy.initialDelay > 0 /\ policy.backoffFactor > 1 /\ BelowCap(k))
              => DelayAt(k) < DelayAt(k + 1)

\* C17 witness: initialDelay 100, backoffFactor 3: the call sleeps before its
\* second retry for 300 ms and the jitter, three times the first delay.
C17_Witness ==
    \E c \in Callers :
        /\ policy.initialDelay = 100 /\ policy.backoffFactor = 3
        /\ rcall[c].pc = "sleep" /\ rcall[c].attempt = 2
        /\ rcall[c].delay = 300 * 10000 + 300 * 500

\* C17 witness: initialDelay 1, maxDelay 1: the delay before the second
\* retry is the cap.
C17_WitnessCapped ==
    \E c \in Callers :
        /\ policy.initialDelay = 1 /\ policy.maxDelay = 1 /\ policy.backoffFactor = 2
        /\ rcall[c].pc = "sleep" /\ rcall[c].attempt = 2
        /\ rcall[c].delay = 10000

\* The time a sleeping call is suspended for, in ms: what sleep(delay) gives
\* to setTimeout, the fraction of a millisecond dropped.
Suspension(c) == rcall[c].delay \div 10000

C32_DelayRange ==
    \A c \in Callers :
        rcall[c].pc = "sleep" =>
            LET d == DelayAt(rcall[c].attempt)
            IN  /\ d * 10000 <= rcall[c].delay
                /\ rcall[c].delay <= d * 11000
                /\ d <= Suspension(c)
                /\ Suspension(c) * 10 <= d * 11
                /\ rcall[c].wakeAt = now + Suspension(c)

\* C32 witness: before retry 2 of a policy whose delay is capped at 1000 ms,
\* Math.random() = 0.999: the call sleeps for 1099 ms.
C32_Witness ==
    \E c \in Callers :
        /\ policy.initialDelay = 1000 /\ policy.maxDelay = 1000 /\ policy.backoffFactor = 2
        /\ rcall[c].pc = "sleep"
        /\ rcall[c].attempt = 2
        /\ rcall[c].delay = 10999000
        /\ Suspension(c) = 1099

\* The operation's invocations of a call number from 1 to maxRetries + 1.
WithinBudget(f) == 1 <= f.opCalls /\ f.opCalls <= policy.maxRetries + 1

\* C33: whatever the operation and the retry predicate do, a withRetry call
\* invokes the operation at least once and at most maxRetries + 1 times,
\* and, every invocation completing, the call settles: it returns a value
\* or throws.
C33_BoundedAndTerminates ==
    /\ [](\A c \in Callers : rcall[c].pc # "idle" => WithinBudget(rcall[c]))
    /\ [](Done => (WithinBudget(Final) /\ rlast.result.tag \in {"value", "error"}))
    /\ \A c \in Callers : (rcall[c].pc # "idle") ~> (rcall[c].pc = "idle" /\ Done)

\* C33 witness: a call that used its whole budget of three invocations has
\* thrown the last failure.
C33_Witness ==
    /\ Done
    /\ policy.maxRetries = MaxRetries
    /\ Final.opCalls = MaxRetries + 1
    /\ Final.sleeps = MaxRetries
    /\ rlast.result.tag = "error"

\* C19: an onRetry that throws does not abort the retries: the call settles
\* with what its operation settled with last, never with the observer's
\* exception, and a call whose operation failed retryably every time made
\* all its maxRetries + 1 attempts.
C19_ObserverCannotAbort ==
    (Done /\ policy.onRetry = "throws") =>
        /\ rlast.result # Rejected(ObserverError)
        /\ rlast.result = rlast.opResult
        /\ ((OpFailedLast /\ Final.allRetryable) => Final.opCalls = policy.maxRetries + 1)

\* A call in progress starts a further attempt.
NextAttempt(c) == rcall[c].pc # "idle" /\ rcall'[c].opCalls > rcall[c].opCalls

\* C20: within one withRetry call the attempts are sequential: attempt k+1
\* starts only from the sleep that followed the failure of attempt k and the
\* call of onRetry(failure, k), when the timer of that sleep is due; and the
\* call never has more than one invocation of its operation in flight (every
\* invocation but the one awaited has been caught as a failure).
C20_Sequential ==
    [][\A c \in Callers :
          /\ NextAttempt(c) =>
                /\ rcall[c].pc = "sleep"
                /\ rcall[c].condCalls = rcall[c].attempt
                /\ rcall[c].sleeps = rcall[c].attempt
                /\ (policy.onRetry # "none" => rcall[c].retryLog = UpTo(rcall[c].attempt))
                /\ now' >= rcall[c].wakeAt
                /\ rcall'[c].attempt = rcall[c].attempt + 1
                /\ rcall'[c].opCalls = rcall[c].opCalls + 1
          /\ rcall'[c].pc = "awaitOp" => rcall'[c].opCalls = rcall'[c].condCalls + 1
          /\ rcall'[c].pc = "sleep" => rcall'[c].opCalls = rcall'[c].condCalls]_vars

\* C20 witness: the third attempt is in flight, after two failures, two
\* calls of onRetry and two sleeps of 1000 ms and 2000 ms (and jitter).
C20_Witness ==
    \E c \in Callers :
        /\ rcall[c].pc = "awaitOp" /\ rcall[c].attempt = 3 /\ rcall[c].opCalls = 3
        /\ policy.onRetry = "observer" /\ rcall[c].retryLog = <<1, 2>>
        /\ rcall[c].sleeps = 2
        /\ policy.initialDelay = 1000 /\ policy.backoffFactor = 2
        /\ now >= 1 + 1000 + 2000

\* ------------------------------------------- properties of generateResponse
\* A generateResponse call whose operation the breaker invoked settles.
GroqSettles(c) == gcall[c].pc # "idle" /\ gcall'[c].pc = "idle"

\* No generateResponse call in progress settles.
GroqGoesOn == \A c \in Callers : ~GroqSettles(c)

\* C10: in generateResponse, the breaker around fetchWithRetry, one call
\* counts as at most one failure of the breaker: the steps of a call before
\* it settles leave the failure count alone, and when the call settles the
\* count is 0 if one of its attempts succeeded (a fetch was answered with an
\* ok response) and has grown by exactly 1 otherwise, whatever the number of
\* attempts made.
C10_OneFailurePerCall ==
    [][/\ \A c \in Callers :
             GroqSettles(c) =>
                 (IF glast'.fetchOk THEN failures' = 0 ELSE failures' = failures + 1)
       /\ GroqGoesOn => (failures' = failures \/ hist' = Append(hist, "reset"))]_vars

\* The failures of an attempt that the upstream's client-fault answers are
\* turned into: HTTP 4xx other than 408 and 429.
ClientFaults == {HttpError(s) : s \in {u \in FetchStatuses : u \in 400..499 /\ u \notin {408, 429}}}

\* C14: in generateResponse an HTTP 4xx answer other than 408 and 429 is not
\* retried: no call goes on (sleeps, fetches again) after such an answer, and
\* a call that ended with one made exactly one network call.
C14_ClientFaultNotRetried ==
    /\ \A c \in Callers : rcall[c].lastError \notin ClientFaults
    /\ ((glast.invoked /\ last.opResult.tag = "error" /\ last.opResult.err \in ClientFaults)
            => glast.fetches = 1)

\* The last generateResponse call failed, and how its error is classified.
GroqFailed == glast.result.tag = "error"
GroqClass == <<glast.result.err.status, glast.result.err.retryable>>

\* C24: a generateResponse call that the open breaker rejected fails with a
\* GroqAPIError of status 503 that is not retryable, having made no network
\* call; a call whose operation was invoked (timeout, 429, 5xx, no
\* connection, 4xx, bad body) never fails with that status and retryable
\* flag.
C24_CircuitOpenDistinct ==
    GroqFailed =>
        /\ glast.result.err.kind = "GroqAPIError"
        /\ ~glast.invoked =>
               /\ GroqClass = <<503, FALSE>>
               /\ glast.fetches = 0
               /\ ~glast.fetchOk
        /\ glast.invoked => GroqClass # <<503, FALSE>>

\* C24 witness: the open breaker has rejected a generateResponse call.
C24_Witness ==
    /\ GroqFailed
    /\ ~glast.invoked
    /\ state = OPEN
    /\ GroqClass = <<503, FALSE>>
    /\ glast.fetches = 0

\* C24 witness: a call failed with the upstream's 503 after its retries.
C24_WitnessUpstream503 ==
    /\ GroqFailed
    /\ glast.invoked
    /\ glast.fetches = policy.maxRetries + 1
    /\ GroqClass = <<503, TRUE>>

\* C31: a probe that fails while the breaker is HalfOpen leaves it Open with
\* lastFailureTime set to the time of that failure, and while the breaker is
\* Open no call made less than recoveryTimeout after lastFailureTime invokes
\* its operation, so the next probe is a full recovery period away.
C31_FailedProbeRestartsPeriod ==
    [][/\ \A c \in probe :
             (OpFailed(c) /\ state = HALF_OPEN)
                 => (state' = OPEN /\ lastFailureTime' = now /\ failures' = failures + 1)
       /\ \A c \in Callers :
             (state = OPEN /\ InvokesOp(c))
                 => (now - lastFailureTime > config.recoveryTimeout /\ c \in probe')
       /\ (state = OPEN /\ RejectsCall /\ last'.result = Rejected(CircuitOpenError))
             => UNCHANGED lastFailureTime]_vars

\* C31 witness: the probe made after the recovery period failed at time 4,
\* and a call made at once was rejected.
C31_Witness ==
    /\ config.failureThreshold = 1
    /\ hist = <<"fail", "fail">>
    /\ state = OPEN
    /\ lastFailureTime = MaxTime
    /\ now = lastFailureTime
    /\ last.result = Rejected(CircuitOpenError)
    /\ ~last.invoked

\* C34: under any interleaving of execute calls no update of the failure
\* count is lost: the completion of a failing operation adds exactly one to
\* it, a step that completes no operation and resets nothing leaves it
\* alone, and so it equals the number of failed completions since the last
\* success or reset.
C34_NoLostUpdate ==
    [][/\ \A c \in Callers : OpFailed(c) => failures' = failures + 1
       /\ hist' = hist => failures' = failures
       /\ failures' = TrailingFails(hist')]_vars

\* C34 witness: two operations have failed and two more are in flight, all
\* at the same instant.
C34_Witness ==
    /\ now = 1
    /\ hist = <<"fail", "fail">>
    /\ failures = 2
    /\ \A c \in Callers : pc[c] = "awaitOp"

\* C36: in every reachable state, under any interleaving of execute calls,
\* operation completions and resets, the breaker is Closed if and only if
\* its failure count is below failureThreshold.
C36_ClosedIffBelowThreshold ==
    /\ config.failureThreshold >= 1
    /\ (state = CLOSED <=> failures < config.failureThreshold)

\* C36 witness: a HalfOpen breaker whose probe is in flight, its count at
\* the threshold of 3.
C36_Witness ==
    /\ state = HALF_OPEN
    /\ config.failureThreshold = 3
    /\ failures = 3
    /\ probe # {}

\* C37: an execute call rejected with the circuit-open error leaves state,
\* failure count and lastFailureTime as they were.
C37_RejectionChangesNothing ==
    [][(RejectsCall /\ last'.result = Rejected(CircuitOpenError) /\ ~last'.invoked)
          => /\ state = OPEN
             /\ UNCHANGED <<state, failures, lastFailureTime, config>>
             /\ UNCHANGED <<pc, probe>>]_vars

\* C37 witness: a call was rejected a whole recovery period after the second
\* of two failures, and the count and the time of that failure stand.
C37_Witness ==
    /\ config.failureThreshold = 2
    /\ hist = <<"fail", "fail">>
    /\ state = OPEN
    /\ failures = 2
    /\ Elapsed = config.recoveryTimeout
    /\ last.result = Rejected(CircuitOpenError)
    /\ ~last.invoked

\* C30: a call made while the breaker is Open and the time elapsed since
\* lastFailureTime is at least recoveryTimeout, exactly recoveryTimeout
\* included, is not rejected: it moves the breaker to HalfOpen and its
\* operation is invoked as the probe.
C30_ProbeAtRecoveryTimeout ==
    [][(state = OPEN /\ Elapsed >= config.recoveryTimeout)
          => /\ ~RejectsCall
             /\ \A c \in Callers :
                   InvokesOp(c) => (state' = HALF_OPEN /\ c \in probe')]_vars

\* --------------------- properties of withRetry around CircuitBreaker.execute
\* The guarded operation of c's attempt fails in this step.
AttemptFails(c) == pc[c] = "awaitOp" /\ pc'[c] = "idle"

\* c is not inside an attempt, and the breaker is Open with its recovery
\* period not over.
BeforeRecovery(c) ==
    /\ rcall[c].pc \in {"idle", "sleep"}
    /\ state = OPEN
    /\ now - lastFailureTime < config.recoveryTimeout

\* C29: with withRetry around breaker.execute and an operation that always
\* fails retryably, every failed attempt adds one to the breaker's failure
\* count; the breaker is Open at the failure that brings the count to
\* failureThreshold; and an attempt or call made while it is Open and the
\* recovery period is not over does not invoke the operation and is
\* rejected with the circuit-open error, leaving the breaker as it is.
C29_AttemptsCount ==
    [][/\ failures = Len(hist)
       /\ \A c \in Callers :
             AttemptFails(c) =>
                 /\ failures' = failures + 1
                 /\ (failures + 1 >= config.failureThreshold => state' = OPEN)
       /\ \A c \in Callers :
             BeforeRecovery(c) =>
                 /\ pc'[c] = "idle"
                 /\ rcall'[c] # rcall[c] =>
                        /\ last' = Settled(FALSE, FALSE, Rejected(CircuitOpenError), NoResult)
                        /\ UNCHANGED <<state, failures, lastFailureTime, hist>>
                        /\ rcall'[c].opCalls = 0 => rlast'.result = Rejected(CircuitOpenError)
                        /\ rcall'[c].opCalls # 0 => rcall'[c].lastError = CircuitOpenError]_vars

\* C29 witness: a withRetry call has ended with the circuit-open error at
\* its third attempt, the first two having opened the breaker, whose
\* operation was invoked twice.
C29_Witness ==
    /\ config.failureThreshold = 2
    /\ hist = <<"fail", "fail">>
    /\ state = OPEN
    /\ rlast.settled
    /\ rlast.frame.opCalls = 3
    /\ rlast.result = Rejected(CircuitOpenError)
    /\ ~last.invoked

\* ------------------------------- properties of POST /api/debate/message
\* The handler is entered for the stored debate in this step.
Handled(r) == reqs[r].pc = "idle" /\ reqs'[r] # reqs[r] /\ reqs'[r].status # 404

\* C26: whatever the interleaving of the requests, the debate never holds
\* more than 8 messages, and a request handled when the debate is complete
\* is answered 400 and adds no message.
C26_AtMostEight ==
    [][/\ Len(debate'.messages) <= 8
       /\ \A r \in Requests :
             (Handled(r) /\ isDebateComplete(debate.currentTurn))
                 => (reqs'[r] = Responded(400) /\ debate' = debate)]_vars

\* The phase of a turn, as the claim lists them.
PhaseOfTurn(turn) ==
    CASE turn <= 2 -> "opening"
      [] turn \in 3..6 -> "rebuttal"
      [] turn \in 7..8 -> "closing"
      [] turn >= 9 -> "complete"

GroqCallEnds(r) == reqs[r].pc = "callGroq" /\ reqs'[r].pc = "idle"

\* C38: a request whose AI completion call fails is answered 500 and leaves
\* the stored debate as it is: no message, no advance of turn or phase, no
\* curveball recorded; a request answered after its call is answered 200 or
\* 500, and only the 200 changes the debate.
C38_FailedCallChangesNothing ==
    [][\A r \in Requests :
          GroqCallEnds(r) =>
              /\ reqs'[r].status \in {200, 500}
              /\ reqs'[r].status = 500 => debate' = debate
              /\ reqs'[r].status = 200 => Len(debate'.messages) = Len(debate.messages) + 1
              /\ debate' = debate => reqs'[r].status = 500]_vars

\* C38 witness: in the rebuttal phase a request that carried a curveball has
\* been answered 500 while another is waiting for Groq; three messages, turn
\* 4, no curveball on the debate.
C38_Witness ==
    /\ \E r \in Requests : reqs[r] = Responded(500)
    /\ \E r \in Requests : reqs[r].pc = "callGroq" /\ reqs[r].curveball = "twist"
    /\ Len(debate.messages) = 3
    /\ debate.currentTurn = 4
    /\ debate.phase = "rebuttal"
    /\ debate.curveball = Absent

\* C27: the i-th stored message is persona1's when i is odd and persona2's
\* when i is even, and its turn number is i.
C27_Alternation ==
    \A i \in 1..Len(debate.messages) :
        /\ debate.messages[i].participantId = (IF i % 2 = 1 THEN "persona1" ELSE "persona2")
        /\ debate.messages[i].turn = i

\* C28: a curveball is put into the prompt of a request, and recorded on the
\* debate, only when the debate's current turn is 3 to 6.
C28_CurveballInRebuttalOnly ==
    [][/\ \A r \in Requests :
             (reqs[r].pc = "idle" /\ reqs'[r].pc = "callGroq"
                  /\ reqs'[r].prompt.instruction # Absent)
                 => canAddCurveball(debate.currentTurn)
       /\ debate'.curveball # debate.curveball => canAddCurveball(debate.currentTurn)]_vars

\* ------------------------------------------- properties of fetchWithRetry
\* The failures of an attempt that the upstream's server-fault answers are
\* turned into: HTTP 5xx, 408 and 429.
ServerFaults ==
    {HttpError(s) : s \in {u \in UpstreamStatuses : u \in 500..599 \/ u \in {408, 429}}}

\* C15: under the default retry predicate, a fetchWithRetry call that ended
\* with the failure made of a 5xx, 408 or 429 answer was retried to the end
\* of its budget: it made maxRetries + 1 network calls.
C15_ServerFaultRetried ==
    (/\ Done
     /\ policy.retryCondition = "default"
     /\ policy.onRetry # "throws"
     /\ rlast.opResult.tag = "error"
     /\ rlast.opResult.err \in ServerFaults)
        => Final.opCalls = policy.maxRetries + 1

\* C16: against an upstream that never answers, under the default retry
\* predicate (and an onRetry that returns), every fetchWithRetry call
\* terminates, and it ends with the timeout failure after maxRetries + 1
\* attempts, each aborted when its timeout was up.
C16_TimeoutTerminates ==
    /\ []((Done /\ policy.retryCondition = "default" /\ policy.onRetry # "throws")
            => (/\ rlast.result = Rejected(DefaultTimeoutError)
                /\ Final.opCalls = policy.maxRetries + 1))
    /\ [](\A c \in Callers : rcall[c].pc = "awaitOp" => now <= gcall[c].deadline)
    /\ \A c \in Callers :
          (gcall[c].pc = "fetch" /\ policy.retryCondition = "default")
              ~> (gcall[c].pc = "idle" /\ Done)

\* C16 witness: with maxRetries = 2 a call ended with the timeout failure
\* after three attempts of 10000 ms each.
C16_Witness ==
    /\ Done
    /\ policy.retryCondition = "default" /\ policy.maxRetries = 2
    /\ rlast.result = Rejected(DefaultTimeoutError)
    /\ Final.opCalls = 3
    /\ now > 3 * DefaultTimeout

\* C39: getCircuitBreakerStatus reports canExecute = false exactly when a
\* generateResponse call made at that same instant is rejected by the
\* breaker without a network call (the call settles at once with the
\* circuit-open error and no fetch is started), and canExecute = true
\* exactly when the call is let through (its first fetch is started).
C39_CanExecuteExact ==
    [][\A c \in Callers :
          (seen.op = "getCircuitBreakerStatus" /\ c = gcount + 1 /\ gcount' = gcount + 1)
          => /\ seen.canExecute <=> gcall'[c].pc = "fetch"
             /\ ~seen.canExecute
                <=> /\ gcall' = gcall
                    /\ glast' = GroqSettled(Rejected(GroqErrorOf(CircuitOpenError)),
                                            FALSE, 0, FALSE)]_vars

\* The status read while the breaker is open and the recovery period is
\* over: canExecute is false, and the call that follows is let through.
C39_OpenAfterRecovery ==
    /\ seen.op = "getCircuitBreakerStatus"
    /\ ~seen.canExecute
    /\ state = OPEN
    /\ RecoveryElapsed
    /\ gcount < MaxGroqCalls
====
